---- MODULE Spec2Model ----
(***************************************************************************)
(* Model of rebranding/apply-branding.ts: main() applies branding.json to  *)
(* the package manifest, the localization map, the icon assets and the     *)
(* English locale files.                                                   *)
(*                                                                         *)
(* Text is a sequence of one-character strings, so that the literal        *)
(* substitutions, JSON.parse and JSON.stringify act on characters as the   *)
(* code does.  The JSON subset is objects and strings without escapes;     *)
(* every document of the model is written in that subset.                  *)
(***************************************************************************)
EXTENDS Integers, Sequences, FiniteSets, TLC

(***************************************************************************)
(* Bounds of the model.                                                    *)
(***************************************************************************)
\* number of chunks a generated locale text is made of
MaxChunks == 3
\* number of chunks a generated manifest value is made of
MaxParts == 2
\* number of members of a generated localization map
MaxKeys == 3
\* number of entries of a generated icon mapping
MaxIcons == 3

(***************************************************************************)
(* Literals of the source.                                                 *)
(***************************************************************************)
\* "kilo-code", line 50
LegacyName == <<"k","i","l","o","-","c","o","d","e">>
\* "kilocode", line 56
LegacyPublisher == <<"k","i","l","o","c","o","d","e">>
\* "Kilo Code", line 159
KiloCode == <<"K","i","l","o"," ","C","o","d","e">>
\* "Kilo", line 163
Kilo == <<"K","i","l","o">>
\* "Kilocode", line 171
Kilocode == <<"K","i","l","o","c","o","d","e">>

\* the content of a file that does not exist (fs.existsSync is false): a
\* sequence that is no text
Missing == <<"<missing>">>

(***************************************************************************)
(* String primitives.                                                      *)
(***************************************************************************)
\* whether find occurs in str at index i
OccursAt(str, find, i) ==
    /\ i >= 1
    /\ i + Len(find) - 1 <= Len(str)
    /\ \A j \in 1..Len(find) : str[i + j - 1] = find[j]

\* String.prototype.indexOf, 1-based; 0 when find does not occur
IndexOf(str, find) ==
    LET S == {i \in 1..Len(str) : OccursAt(str, find, i)}
    IN  IF S = {} THEN 0 ELSE CHOOSE i \in S : \A j \in S : i <= j

\* String.prototype.includes
Includes(str, find) == IndexOf(str, find) # 0

\* String.prototype.split with a non-empty separator
RECURSIVE Split(_, _)
Split(str, find) ==
    LET i == IndexOf(str, find)
    IN  IF i = 0
        THEN <<str>>
        ELSE <<SubSeq(str, 1, i - 1)>>
             \o Split(SubSeq(str, i + Len(find), Len(str)), find)

\* Array.prototype.join
RECURSIVE Join(_, _)
Join(parts, sep) ==
    IF Len(parts) = 0 THEN <<>>
    ELSE IF Len(parts) = 1 THEN parts[1]
    ELSE parts[1] \o sep \o Join(Tail(parts), sep)

\* the helper of lines 44-46 and 152-154
replaceAll(str, find, replace) == Join(Split(str, find), replace)

\* String.prototype.endsWith
EndsWith(str, suffix) ==
    /\ Len(suffix) <= Len(str)
    /\ SubSeq(str, Len(str) - Len(suffix) + 1, Len(str)) = suffix

(***************************************************************************)
(* JavaScript objects and JSON.                                            *)
(* A value is a string or an object; an object is the sequence of its own  *)
(* properties in enumeration order: array-index keys in ascending numeric  *)
(* order first, then the other keys in creation order.                     *)
(***************************************************************************)
Str(s) == [t |-> "str", s |-> s, o |-> <<>>]
Obj(o) == [t |-> "obj", s |-> <<>>, o |-> o]

Digits == {"0","1","2","3","4","5","6","7","8","9"}

DigitVal(c) ==
    CASE c = "0" -> 0 [] c = "1" -> 1 [] c = "2" -> 2 [] c = "3" -> 3
      [] c = "4" -> 4 [] c = "5" -> 5 [] c = "6" -> 6 [] c = "7" -> 7
      [] c = "8" -> 8 [] OTHER -> 9

\* a canonical numeric string is an array index (keys of the model are far
\* below 2^32 - 1)
IsArrayIndex(k) ==
    /\ Len(k) > 0
    /\ \A i \in 1..Len(k) : k[i] \in Digits
    /\ (k[1] # "0" \/ Len(k) = 1)

RECURSIVE ToNumber(_)
ToNumber(k) ==
    IF k = <<>> THEN 0
    ELSE 10 * ToNumber(SubSeq(k, 1, Len(k) - 1)) + DigitVal(k[Len(k)])

HasKey(o, k) == \E i \in 1..Len(o) : o[i].k = k

KeyIndex(o, k) == CHOOSE i \in 1..Len(o) : o[i].k = k

\* obj[k], for a key the object has
Get(o, k) == o[KeyIndex(o, k)].v

\* where a new property k is enumerated among the properties of o
InsertAt(o, k) ==
    IF IsArrayIndex(k)
    THEN Cardinality({i \in 1..Len(o) :
                        IsArrayIndex(o[i].k) /\ ToNumber(o[i].k) < ToNumber(k)}) + 1
    ELSE Len(o) + 1

\* obj[k] = v: an existing property keeps its place, a new one is enumerated
\* by the ordinary own-property order
Put(o, k, v) ==
    IF HasKey(o, k)
    THEN [o EXCEPT ![KeyIndex(o, k)].v = v]
    ELSE LET p == InsertAt(o, k)
         IN  SubSeq(o, 1, p - 1) \o <<[k |-> k, v |-> v]>> \o SubSeq(o, p, Len(o))

(***************************************************************************)
(* JSON.parse on the subset: a parse result is [ok, v, i], i the index of  *)
(* the first character not consumed.                                       *)
(***************************************************************************)
Quote == "\""

Whitespace == {" ", "\n", "\t"}

ParseFail == [ok |-> FALSE, v |-> Str(<<>>), i |-> 0]

RECURSIVE SkipWs(_, _)
SkipWs(text, i) ==
    IF i <= Len(text) /\ text[i] \in Whitespace THEN SkipWs(text, i + 1) ELSE i

\* the index of the quote that closes a string opened before index i, 0 when
\* the string is not closed or holds a character the subset has no place for
RECURSIVE CloseQuote(_, _)
CloseQuote(text, i) ==
    IF i > Len(text) THEN 0
    ELSE IF text[i] = Quote THEN i
    ELSE IF text[i] \in {"\\", "\n", "\t"} THEN 0
    ELSE CloseQuote(text, i + 1)

ParseString(text, i) ==
    IF i > Len(text) \/ text[i] # Quote THEN ParseFail
    ELSE LET j == CloseQuote(text, i + 1)
         IN  IF j = 0 THEN ParseFail
             ELSE [ok |-> TRUE, v |-> Str(SubSeq(text, i + 1, j - 1)), i |-> j + 1]

RECURSIVE ParseValue(_, _)
RECURSIVE ParseMembers(_, _, _)

\* the members of an object after its opening brace or after a comma
ParseMembers(text, i, acc) ==
    LET k == ParseString(text, SkipWs(text, i))
        c == SkipWs(text, k.i)
    IN  IF ~k.ok \/ c > Len(text) \/ text[c] # ":" THEN ParseFail
        ELSE LET val == ParseValue(text, c + 1)
                 e == SkipWs(text, val.i)
                 obj == Put(acc, k.v.s, val.v)
             IN  IF ~val.ok \/ e > Len(text) THEN ParseFail
                 ELSE IF text[e] = "," THEN ParseMembers(text, e + 1, obj)
                 ELSE IF text[e] = "}" THEN [ok |-> TRUE, v |-> Obj(obj), i |-> e + 1]
                 ELSE ParseFail

ParseValue(text, i) ==
    LET b == SkipWs(text, i)
    IN  IF b > Len(text) THEN ParseFail
        ELSE IF text[b] = Quote THEN ParseString(text, b)
        ELSE IF text[b] = "{"
             THEN LET m == SkipWs(text, b + 1)
                  IN  IF m <= Len(text) /\ text[m] = "}"
                      THEN [ok |-> TRUE, v |-> Obj(<<>>), i |-> m + 1]
                      ELSE ParseMembers(text, b + 1, <<>>)
        ELSE ParseFail

\* JSON.parse: ok is FALSE where the code's call throws a SyntaxError
JSONparse(text) ==
    LET r == ParseValue(text, 1)
    IN  IF r.ok /\ SkipWs(text, r.i) = Len(text) + 1 THEN r ELSE ParseFail

(***************************************************************************)
(* JSON.stringify(value, null, "\t").                                      *)
(***************************************************************************)
RECURSIVE Indent(_)
Indent(depth) == IF depth = 0 THEN <<>> ELSE <<"\t">> \o Indent(depth - 1)

RECURSIVE JSONstringify(_, _)
RECURSIVE StringifyMembers(_, _)

StringifyMembers(o, depth) ==
    IF o = <<>> THEN <<>>
    ELSE Indent(depth) \o <<Quote>> \o o[1].k \o <<Quote, ":", " ">>
         \o JSONstringify(o[1].v, depth)
         \o (IF Len(o) = 1 THEN <<>> ELSE <<",", "\n">>)
         \o StringifyMembers(Tail(o), depth)

JSONstringify(v, depth) ==
    IF v.t = "str" THEN <<Quote>> \o v.s \o <<Quote>>
    ELSE IF v.o = <<>> THEN <<"{", "}">>
    ELSE <<"{", "\n">> \o StringifyMembers(v.o, depth + 1)
         \o <<"\n">> \o Indent(depth) \o <<"}">>

(***************************************************************************)
(* Paths (lines 5-9, 37-38, 85-86, 107, 141).  The manifest and the        *)
(* localization map are named by their path relative to rootDir; icon      *)
(* sources are absolute paths, written out in characters.                  *)
(***************************************************************************)
\* __dirname, the directory of apply-branding.ts and branding.json
dirname == <<"/","p","/","r","e","b","r","a","n","d","i","n","g">>
\* rootDir = path.join(__dirname, "..")
rootDir == <<"/","p">>

DefaultPackagePath == "src/package.json"
DefaultNlsPath == "src/package.nls.json"
OverridePackagePath == "ext/package.json"
LocalesPath == "webview-ui/src/i18n/locales/en"

FilePaths == {DefaultPackagePath, DefaultNlsPath, OverridePackagePath}

\* path.isAbsolute on POSIX
isAbsolute(p) == Len(p) > 0 /\ p[1] = "/"

\* path.join of a directory and a relative path that needs no normalisation
pathJoin(dir, p) == dir \o <<"/">> \o p

(***************************************************************************)
(* BrandingConfig (lines 11-24) and the configurations of the model.       *)
(* An unset string field is the empty string, which the code's || and if   *)
(* treat as it treats undefined.  icons is [present, entries]: entries in  *)
(* the order Object.entries yields them.                                   *)
(***************************************************************************)
NoIcons == [present |-> FALSE, entries |-> <<>>]
Icons(entries) == [present |-> TRUE, entries |-> entries]

\* the configuration of the spec's examples
JackConfig ==
    [ name |-> <<"j","a","c","k","-","c","o","d","e">>, displayName |-> <<"J","a","c","k"," ","A","s","s","i","s","t","a","n","t">>,
      publisher |-> <<"j","a","c","k","c","o","d","e">>, description |-> <<"J","a","c","k"," ","A","I">>,
      repository |-> <<"g","i","t",".","j","a","c","k">>, homepage |-> <<>>,
      package |-> "", nls |-> "", shortName |-> <<>>,
      icons |-> Icons(<< [dest |-> <<"a",".","p","n","g">>, src |-> <<"i","/","a",".","p","n","g">>],
                         [dest |-> <<"b",".","p","n","g">>, src |-> <<>>],
                         [dest |-> <<"c",".","p","n","g">>, src |-> <<"/","a","b","s","/","c",".","p","n","g">>] >>) ]

\* a fork that keeps the legacy slug inside its own name, with an explicit
\* shortName, an overridden manifest path and an empty icon mapping
ForkConfig ==
    [ name |-> <<"k","i","l","o","-","c","o","d","e","-","x">>, displayName |-> <<"J","a","y">>,
      publisher |-> <<"a","c","m","e">>, description |-> <<"x">>,
      repository |-> <<>>, homepage |-> <<"a","c","m","e",".","i","o">>,
      package |-> OverridePackagePath, nls |-> "", shortName |-> <<"J","K">>,
      icons |-> Icons(<<>>) ]

\* a configuration whose name is a suffix of the legacy slug, without icons
CodeConfig ==
    [ name |-> <<"c","o","d","e">>, displayName |-> <<"J","a","c","k"," ","A","s","s","i","s","t","a","n","t">>,
      publisher |-> <<"j","a","c","k","c","o","d","e">>, description |-> <<"o","n"," ","k","i","l","o","c","o","d","e">>,
      repository |-> <<>>, homepage |-> <<>>,
      package |-> "", nls |-> "", shortName |-> <<>>,
      icons |-> NoIcons ]

Configs == {JackConfig, ForkConfig, CodeConfig}

\* line 144: shortName || displayName.split(" ")[0] || displayName
ShortNameOf(b) ==
    IF b.shortName # <<>> THEN b.shortName
    ELSE IF Split(b.displayName, <<" ">>)[1] # <<>>
         THEN Split(b.displayName, <<" ">>)[1]
         ELSE b.displayName

(***************************************************************************)
(* The pure part of each stage.                                            *)
(***************************************************************************)
\* substituteIds with a fault: the second substitution is lost
substituteIdsNameOnly(content, b) ==
    replaceAll(content, LegacyName, b.name)

\* lines 50 and 56: the two substitutions over the manifest text
substituteIds(content, b) ==
    replaceAll(replaceAll(content, LegacyName, b.name), LegacyPublisher, b.publisher)

\* overwriteFields with a fault: description is appended to instead of assigned
overwriteFieldsAppend(o, b) ==
    LET o1 == Put(o, <<"n","a","m","e">>, Str(b.name))
        o2 == Put(o1, <<"p","u","b","l","i","s","h","e","r">>, Str(b.publisher))
        o3 == IF HasKey(o2, <<"d","e","s","c","r","i","p","t","i","o","n">>)
              THEN Put(o2, <<"d","e","s","c","r","i","p","t","i","o","n">>,
                       Str(Get(o2, <<"d","e","s","c","r","i","p","t","i","o","n">>).s \o b.description))
              ELSE Put(o2, <<"d","e","s","c","r","i","p","t","i","o","n">>, Str(b.description))
        o4 == IF b.repository # <<>>
              THEN Put(o3, <<"r","e","p","o","s","i","t","o","r","y">>,
                       Obj(<< [k |-> <<"t","y","p","e">>, v |-> Str(<<"g","i","t">>)],
                              [k |-> <<"u","r","l">>, v |-> Str(b.repository)] >>))
              ELSE o3
    IN  IF b.homepage # <<>> THEN Put(o4, <<"h","o","m","e","p","a","g","e">>, Str(b.homepage)) ELSE o4

\* overwriteFields with a fault: the assignment of description is lost
overwriteFieldsNoDescription(o, b) ==
    LET o1 == Put(o, <<"n","a","m","e">>, Str(b.name))
        o2 == Put(o1, <<"p","u","b","l","i","s","h","e","r">>, Str(b.publisher))
        o4 == IF b.repository # <<>>
              THEN Put(o2, <<"r","e","p","o","s","i","t","o","r","y">>,
                       Obj(<< [k |-> <<"t","y","p","e">>, v |-> Str(<<"g","i","t">>)],
                              [k |-> <<"u","r","l">>, v |-> Str(b.repository)] >>))
              ELSE o2
    IN  IF b.homepage # <<>> THEN Put(o4, <<"h","o","m","e","p","a","g","e">>, Str(b.homepage)) ELSE o4

\* lines 61-73: the assignments to the parsed manifest
overwriteFields(o, b) ==
    LET o1 == Put(o, <<"n","a","m","e">>, Str(b.name))
        o2 == Put(o1, <<"p","u","b","l","i","s","h","e","r">>, Str(b.publisher))
        o3 == Put(o2, <<"d","e","s","c","r","i","p","t","i","o","n">>, Str(b.description))
        o4 == IF b.repository # <<>>
              THEN Put(o3, <<"r","e","p","o","s","i","t","o","r","y">>,
                       Obj(<< [k |-> <<"t","y","p","e">>, v |-> Str(<<"g","i","t">>)],
                              [k |-> <<"u","r","l">>, v |-> Str(b.repository)] >>))
              ELSE o3
    IN  IF b.homepage # <<>> THEN Put(o4, <<"h","o","m","e","p","a","g","e">>, Str(b.homepage)) ELSE o4

\* lines 41-78: [ok, text]; ok is FALSE where JSON.parse throws, or where the
\* parsed value is not an object and the first assignment throws
rewritePackage(content, b) ==
    LET p == JSONparse(substituteIds(content, b))
    IN  IF ~p.ok \/ p.v.t # "obj"
        THEN [ok |-> FALSE, text |-> content]
        ELSE [ok |-> TRUE,
              text |-> JSONstringify(Obj(overwriteFields(p.v.o, b)), 0) \o <<"\n">>]

\* the keys of lines 91-97, in the order of the assignments
DisplayNameKeys ==
    << <<"e","x","t","e","n","s","i","o","n",".","d","i","s","p","l","a","y","N","a","m","e">>, <<"v","i","e","w","s",".","a","c","t","i","v","i","t","y","b","a","r",".","t","i","t","l","e">>, <<"v","i","e","w","s",".","s","i","d","e","b","a","r",".","n","a","m","e">>,
       <<"c","o","n","f","i","g","u","r","a","t","i","o","n",".","t","i","t","l","e">>, <<"v","i","e","w","s",".","c","o","n","t","e","x","t","M","e","n","u",".","l","a","b","e","l">>, <<"v","i","e","w","s",".","t","e","r","m","i","n","a","l","M","e","n","u",".","l","a","b","e","l">> >>
DescriptionKey == <<"e","x","t","e","n","s","i","o","n",".","d","e","s","c","r","i","p","t","i","o","n">>
KnownKeys == {DisplayNameKeys[i] : i \in 1..Len(DisplayNameKeys)} \cup {DescriptionKey}

\* lines 91-97
assignNls(o, b) ==
    LET o1 == Put(o, DisplayNameKeys[1], Str(b.displayName))
        o2 == Put(o1, DescriptionKey, Str(b.description))
        o3 == Put(o2, DisplayNameKeys[2], Str(b.displayName))
        o4 == Put(o3, DisplayNameKeys[3], Str(b.displayName))
        o5 == Put(o4, DisplayNameKeys[4], Str(b.displayName))
        o6 == Put(o5, DisplayNameKeys[5], Str(b.displayName))
    IN  Put(o6, DisplayNameKeys[6], Str(b.displayName))

\* lines 89-99
rewriteNls(content, b) ==
    LET p == JSONparse(content)
    IN  IF ~p.ok \/ p.v.t # "obj"
        THEN [ok |-> FALSE, text |-> content]
        ELSE [ok |-> TRUE,
              text |-> JSONstringify(Obj(assignNls(p.v.o, b)), 0) \o <<"\n">>]

\* fs.existsSync of an icon path: blobs holds every icon path of the model
existsSync(fs, p) == p \in DOMAIN fs /\ fs[p] # Missing

\* line 107
iconsDirPath == pathJoin(rootDir, <<"s","r","c","/","a","s","s","e","t","s","/","i","c","o","n","s">>)

\* lines 119-127: the source path after the two-tier fallback
resolveSrc(srcPath, fs) ==
    IF isAbsolute(srcPath) THEN srcPath
    ELSE IF existsSync(fs, pathJoin(dirname, srcPath))
         THEN pathJoin(dirname, srcPath)
         ELSE pathJoin(rootDir, srcPath)

\* rewriteLocale with a fault: the single word is replaced before the phrase
rewriteLocaleWordFirst(content, b) ==
    LET c1 == replaceAll(content, Kilo, ShortNameOf(b))
        c2 == replaceAll(c1, KiloCode, ShortNameOf(b))
    IN  replaceAll(c2, Kilocode, b.displayName)

\* lines 159, 163 and 171: the three substitutions over a locale file
rewriteLocale(content, b) ==
    LET c1 == replaceAll(content, KiloCode, ShortNameOf(b))
        c2 == replaceAll(c1, Kilo, ShortNameOf(b))
    IN  replaceAll(c2, Kilocode, b.displayName)

(***************************************************************************)
(* Console output: one record per console.log / console.warn /             *)
(* console.error call; arg is the interpolated part of the message.        *)
(***************************************************************************)
Msg(level, text, arg) == [level |-> level, text |-> text, arg |-> arg]

ConfigNotFound == Msg("error", "branding.json not found in rebranding directory.", <<>>)
Applying(b) == Msg("log", "Applying branding:", b.name)
Updated(rel) == Msg("log", "Updated", <<rel>>)
NotFound(rel) == Msg("error", "not found", <<rel>>)
CopiedIcon(dest) == Msg("log", "Copied icon", dest)
IconNotFound(abs) ==
    Msg("warn", "Icon source not found (checked relative to rebranding/ and root)", abs)
UpdatedLocale(file) == Msg("log", "Updated locale file:", file)
\* main().catch(console.error), line 180
Uncaught == Msg("error", "uncaught exception", <<>>)

(***************************************************************************)
(* State.                                                                  *)
(***************************************************************************)
VARIABLES
    pc,             \* position of main(): the stage about to run
    run,            \* 1 for the first invocation of the script, 2 for the second
    idx,            \* index of the loop over icons or over locale files
    brandingExists, \* fs.existsSync(brandingPath)
    branding,       \* the parsed content of branding.json
    files,          \* text of the manifest and localization-map files, or Missing
    iconsDir,       \* whether src/assets/icons exists
    blobs,          \* icon path -> the path its content was first read at, or Missing
    localesExists,  \* fs.existsSync(localesDir)
    locales,        \* readdirSync(localesDir): [name, text] in directory order
    log             \* console output of the current invocation

vars == <<pc, run, idx, brandingExists, branding, files, iconsDir, blobs,
          localesExists, locales, log>>

\* everything on disk that the script may write
disk == <<files, iconsDir, blobs, locales>>

relativePackagePath == IF branding.package # "" THEN branding.package ELSE DefaultPackagePath
relativeNlsPath == IF branding.nls # "" THEN branding.nls ELSE DefaultNlsPath

(***************************************************************************)
(* The inputs of the model: what is on disk when the script starts.        *)
(***************************************************************************)
\* all concatenations of at most n of the given chunks
RECURSIVE Concats(_, _)
Concats(chunks, n) ==
    IF n = 0 THEN {<<>>}
    ELSE LET P == Concats(chunks, n - 1)
         IN  P \cup {t \o c : t \in P, c \in chunks}

\* all sequences of at most n elements of S
RECURSIVE SeqsUpTo(_, _)
SeqsUpTo(S, n) ==
    IF n = 0 THEN {<<>>}
    ELSE LET P == SeqsUpTo(S, n - 1)
         IN  P \cup {Append(s, x) : s \in P, x \in S}

\* a JSON document as its author wrote it: members in the order given,
\* duplicates included, no whitespace
RECURSIVE RenderMembers(_)
RenderMembers(ms) ==
    IF ms = <<>> THEN <<>>
    ELSE <<Quote>> \o ms[1].k \o <<Quote, ":", Quote>> \o ms[1].v \o <<Quote>>
         \o (IF Len(ms) = 1 THEN <<>> ELSE <<",">>)
         \o RenderMembers(Tail(ms))
Render(ms) == <<"{">> \o RenderMembers(ms) \o <<"}">>

LocaleChunks ==
    {Kilo, <<" ","C","o","d","e">>, <<"c","o","d","e">>, <<" ","h","a","s"," ","a"," ","q","u","e","s","t","i","o","n">>, <<" ","s","a","i","d"," ","h","i">>, <<" ","s","e","t","t","i","n","g","s">>}
LocaleTexts == Concats(LocaleChunks, MaxChunks)

LocaleDir(text) ==
    << [name |-> <<"c","h","a","t",".","j","s","o","n">>, text |-> text],
       [name |-> <<"n","o","t","e","s",".","t","x","t">>, text |-> <<"K","i","l","o"," ","C","o","d","e"," ","n","o","t","e","s">>],
       [name |-> <<"k","i","l","o","c","o","d","e",".","j","s","o","n">>, text |-> <<"K","i","l","o","c","o","d","e"," ","s","e","t","t","i","n","g","s">>] >>

ManifestChunks == {LegacyName, LegacyPublisher, <<"k","i","l","o","-">>, <<"k","i","l","o">>, <<".","s","o","m","e","V","i","e","w">>}
ManifestValues == Concats(ManifestChunks, MaxParts)
ManifestKeys == {<<"v","i","e","w">>, <<"k","i","l","o","-","c","o","d","e",".","i","d">>}

ManifestMembers(k, v) ==
    << [k |-> <<"n","a","m","e">>, v |-> LegacyName],
       [k |-> <<"p","u","b","l","i","s","h","e","r">>, v |-> LegacyPublisher],
       [k |-> <<"d","e","s","c","r","i","p","t","i","o","n">>, v |-> <<"K","i","l","o"," ","C","o","d","e"," ","a","g","e","n","t">>],
       [k |-> <<"a","c","t","i","v","a","t","i","o","n","E","v","e","n","t","s">>, v |-> <<"o","n","V","i","e","w",":","k","i","l","o","c","o","d","e",".","P","r","o","v","i","d","e","r">>],
       [k |-> k, v |-> v] >>

\* manifests apart from the generated ones: without the top-level fields and
\* with an array-index key; with two keys that the substitution makes equal;
\* truncated; a JSON string instead of an object
OtherManifests ==
    { Render(<< [k |-> <<"h","o","m","e","p","a","g","e">>, v |-> <<"k","i","l","o","c","o","d","e",".","a","i">>],
                [k |-> <<"r","e","p","o","s","i","t","o","r","y">>, v |-> <<"k","i","l","o","c","o","d","e",".","g","i","t">>],
                [k |-> <<"2">>, v |-> <<"t","w","o">>] >>),
      Render(<< [k |-> <<"k","i","l","o","-","c","o","d","e">>, v |-> <<"f","i","r","s","t">>],
                [k |-> <<"j","a","c","k","-","c","o","d","e">>, v |-> <<"s","e","c","o","n","d">>] >>),
      SubSeq(Render(ManifestMembers(<<"v","i","e","w">>, <<>>)), 1, 20),
      <<Quote>> \o LegacyName \o <<Quote>> }

Manifests ==
    {Render(ManifestMembers(k, v)) : k \in ManifestKeys, v \in ManifestValues}
    \cup OtherManifests \cup {Missing}

NlsKeyPool == {DisplayNameKeys[1], DescriptionKey, <<"z","e","t","a">>, <<"7">>, <<"1","0">>}
NlsValues == << <<"K","i","l","o"," ","C","o","d","e">>, <<"K","i","l","o">>, <<"k","i","l","o">>, <<"K">>, <<"k">> >>
\* the i-th member of a localization map carries the i-th value
NlsDoc(keys) == Render([i \in 1..Len(keys) |-> [k |-> keys[i], v |-> NlsValues[i]]])
NlsDocs ==
    {NlsDoc(keys) : keys \in SeqsUpTo(NlsKeyPool, MaxKeys)}
    \cup {Missing}

DestPool == << <<"a",".","p","n","g">>, <<"b",".","p","n","g">>, <<"c",".","p","n","g">>, <<"d",".","p","n","g">>, <<"e",".","p","n","g">> >>
DestNames == {DestPool[i] : i \in 1..Len(DestPool)}
\* no source; relative, beside branding.json or under the root; absolute;
\* relative to the root, inside the icon directory itself
SrcPool ==
    {<<>>, <<"i","/","a",".","p","n","g">>, <<"/","a","b","s","/","c",".","p","n","g">>, <<"s","r","c","/","a","s","s","e","t","s","/","i","c","o","n","s","/","b",".","p","n","g">>}
SrcCandidates ==
    {pathJoin(dirname, <<"i","/","a",".","p","n","g">>), pathJoin(rootDir, <<"i","/","a",".","p","n","g">>), <<"/","a","b","s","/","c",".","p","n","g">>}
IconPaths == SrcCandidates \cup {pathJoin(iconsDirPath, d) : d \in DestNames}
\* the icon mappings: the i-th entry is named by the i-th destination name
IconMappings ==
    {Icons([i \in 1..Len(srcs) |-> [dest |-> DestPool[i], src |-> srcs[i]]]) :
        srcs \in SeqsUpTo(SrcPool, MaxIcons)}
    \cup {NoIcons}

\* the content of an icon that is in the icon directory before the first run
OldIcon == <<"/","o","l","d">>

BasePackage == Render(ManifestMembers(<<"v","i","e","w">>, <<"k","i","l","o","-","c","o","d","e",".","s","o","m","e","V","i","e","w">>))
BaseNls == NlsDoc(<<DisplayNameKeys[1], <<"z","e","t","a">>>>)
BaseLocales == LocaleDir(<<"K","i","l","o"," ","C","o","d","e"," ","h","a","s"," ","a"," ","q","u","e","s","t","i","o","n">>)

Scenario(cfg, exists, package, nls, dir, src, lexists, dirents) ==
    [cfg |-> cfg, exists |-> exists, package |-> package, nls |-> nls, dir |-> dir,
     src |-> src, lexists |-> lexists, dirents |-> dirents]

TruncatedNls == SubSeq(NlsDoc(<<<<"z","e","t","a">>>>), 1, 8)

\* one family of inputs per stage, the targets of the other stages absent;
\* and the runs in which every stage finds its target
Scenarios ==
    {Scenario(c, TRUE, Missing, Missing, FALSE, {}, TRUE, LocaleDir(t)) :
        c \in {JackConfig, ForkConfig}, t \in LocaleTexts}
    \cup {Scenario(c, TRUE, m, Missing, FALSE, {}, FALSE, <<>>) :
        c \in Configs, m \in Manifests}
    \cup {Scenario(c, TRUE, Missing, n, FALSE, {}, FALSE, <<>>) :
        c \in {JackConfig, ForkConfig}, n \in NlsDocs}
    \cup {Scenario([JackConfig EXCEPT !.icons = m], TRUE, Missing, Missing, d, s,
                   FALSE, <<>>) :
        m \in IconMappings, d \in BOOLEAN, s \in SUBSET SrcCandidates}
    \cup {Scenario(c, e, BasePackage, n, d, SrcCandidates, l, BaseLocales) :
        c \in Configs, e \in BOOLEAN, n \in {BaseNls, TruncatedNls},
        d \in BOOLEAN, l \in BOOLEAN}

Init ==
    \E sc \in Scenarios :
        /\ pc = "start"
        /\ run = 1
        /\ idx = 1
        /\ brandingExists = sc.exists
        /\ branding = sc.cfg
        /\ files = [p \in FilePaths |->
                      IF p = (IF sc.cfg.package # "" THEN sc.cfg.package
                              ELSE DefaultPackagePath)
                      THEN sc.package
                      ELSE IF p = DefaultNlsPath THEN sc.nls ELSE Missing]
        /\ iconsDir = sc.dir
        /\ blobs = [p \in IconPaths |->
                      IF p \in sc.src THEN p
                      ELSE IF sc.dir /\ p = pathJoin(iconsDirPath, DestPool[1])
                      THEN OldIcon ELSE Missing]
        /\ localesExists = sc.lexists
        /\ locales = sc.dirents
        /\ log = <<>>

(***************************************************************************)
(* main(), one action per stage and per loop iteration.                    *)
(***************************************************************************)
\* lines 27-33; branding is branding.json as JSON.parse returns it
Start ==
    /\ pc = "start"
    /\ IF ~brandingExists
       THEN /\ log' = Append(log, ConfigNotFound)
            /\ pc' = "exited"
       ELSE /\ log' = Append(log, Applying(branding))
            /\ pc' = "package"
    /\ UNCHANGED <<run, idx, brandingExists, branding, files, iconsDir, blobs, localesExists, locales>>

\* lines 35-82
PackageStage ==
    /\ pc = "package"
    /\ LET rel == relativePackagePath
           r == rewritePackage(files[rel], branding)
       IN  IF files[rel] = Missing
           THEN /\ log' = Append(log, NotFound(rel))
                /\ pc' = "nls"
                /\ files' = files
           ELSE IF ~r.ok
           THEN /\ log' = Append(log, Uncaught)
                /\ pc' = "aborted"
                /\ files' = files
           ELSE /\ files' = [files EXCEPT ![rel] = r.text]
                /\ log' = Append(log, Updated(rel))
                /\ pc' = "nls"
    /\ UNCHANGED <<run, idx, brandingExists, branding, iconsDir, blobs, localesExists, locales>>

\* NlsStage with a fault: the parse failure is reported and the run goes on
NlsStageSwallow ==
    /\ pc = "nls"
    /\ LET rel == relativeNlsPath
           r == rewriteNls(files[rel], branding)
       IN  IF files[rel] = Missing
           THEN /\ log' = Append(log, NotFound(rel))
                /\ files' = files
           ELSE IF ~r.ok
           THEN /\ log' = Append(log, Uncaught)
                /\ files' = files
           ELSE /\ files' = [files EXCEPT ![rel] = r.text]
                /\ log' = Append(log, Updated(rel))
    /\ pc' = "icons"
    /\ UNCHANGED <<run, idx, brandingExists, branding, iconsDir, blobs, localesExists, locales>>

\* lines 84-103
NlsStage ==
    /\ pc = "nls"
    /\ LET rel == relativeNlsPath
           r == rewriteNls(files[rel], branding)
       IN  IF files[rel] = Missing
           THEN /\ log' = Append(log, NotFound(rel))
                /\ pc' = "icons"
                /\ files' = files
           ELSE IF ~r.ok
           THEN /\ log' = Append(log, Uncaught)
                /\ pc' = "aborted"
                /\ files' = files
           ELSE /\ files' = [files EXCEPT ![rel] = r.text]
                /\ log' = Append(log, Updated(rel))
                /\ pc' = "icons"
    /\ UNCHANGED <<run, idx, brandingExists, branding, iconsDir, blobs, localesExists, locales>>

\* lines 106-112: the test of branding.icons, the creation of the directory
\* and the entry into the loop
IconsStage ==
    /\ pc = "icons"
    /\ IF branding.icons.present
       THEN /\ iconsDir' = TRUE
            /\ pc' = IF branding.icons.entries = <<>> THEN "locales" ELSE "iconLoop"
       ELSE /\ iconsDir' = iconsDir
            /\ pc' = "locales"
    /\ idx' = 1
    /\ UNCHANGED <<run, brandingExists, branding, files, blobs,
                   localesExists, locales, log>>

\* IconStep with a fault: a missing source ends the loop
IconStepBreak ==
    /\ pc = "iconLoop"
    /\ LET e == branding.icons.entries[idx]
           absoluteSrcPath == resolveSrc(e.src, blobs)
           destPath == pathJoin(iconsDirPath, e.dest)
       IN  IF e.src = <<>>
           THEN /\ UNCHANGED <<blobs, log>>
                /\ IF idx < Len(branding.icons.entries)
                   THEN idx' = idx + 1 /\ pc' = pc
                   ELSE idx' = 1 /\ pc' = "locales"
           ELSE IF existsSync(blobs, absoluteSrcPath)
           THEN /\ blobs' = [blobs EXCEPT ![destPath] = blobs[absoluteSrcPath]]
                /\ log' = Append(log, CopiedIcon(e.dest))
                /\ IF idx < Len(branding.icons.entries)
                   THEN idx' = idx + 1 /\ pc' = pc
                   ELSE idx' = 1 /\ pc' = "locales"
           ELSE /\ blobs' = blobs
                /\ log' = Append(log, IconNotFound(absoluteSrcPath))
                /\ idx' = 1
                /\ pc' = "locales"
    /\ UNCHANGED <<run, brandingExists, branding, files, iconsDir, localesExists, locales>>

\* lines 112-137: one iteration of the loop
IconStep ==
    /\ pc = "iconLoop"
    /\ LET e == branding.icons.entries[idx]
           absoluteSrcPath == resolveSrc(e.src, blobs)
           destPath == pathJoin(iconsDirPath, e.dest)
       IN  IF e.src = <<>>
           THEN UNCHANGED <<blobs, log>>
           ELSE IF existsSync(blobs, absoluteSrcPath)
           THEN /\ blobs' = [blobs EXCEPT ![destPath] = blobs[absoluteSrcPath]]
                /\ log' = Append(log, CopiedIcon(e.dest))
           ELSE /\ blobs' = blobs
                /\ log' = Append(log, IconNotFound(absoluteSrcPath))
    /\ IF idx < Len(branding.icons.entries)
       THEN idx' = idx + 1 /\ pc' = pc
       ELSE idx' = 1 /\ pc' = "locales"
    /\ UNCHANGED <<run, brandingExists, branding, files, iconsDir, localesExists, locales>>

\* lines 140-146: the test of the directory and the entry into forEach
LocalesStage ==
    /\ pc = "locales"
    /\ pc' = IF localesExists /\ locales # <<>> THEN "localeLoop" ELSE "done"
    /\ idx' = 1
    /\ UNCHANGED <<run, brandingExists, branding, files, iconsDir, blobs, localesExists, locales, log>>

\* lines 146-176: one call of the forEach callback
LocaleStep ==
    /\ pc = "localeLoop"
    /\ LET file == locales[idx]
       IN  IF EndsWith(file.name, <<".","j","s","o","n">>)
           THEN /\ locales' = [locales EXCEPT ![idx].text = rewriteLocale(file.text, branding)]
                /\ log' = Append(log, UpdatedLocale(file.name))
           ELSE UNCHANGED <<locales, log>>
    /\ IF idx < Len(locales)
       THEN idx' = idx + 1 /\ pc' = pc
       ELSE idx' = 1 /\ pc' = "done"
    /\ UNCHANGED <<run, brandingExists, branding, files, iconsDir, blobs, localesExists>>

\* the script is invoked again, with the same branding.json, on what the
\* first invocation left on disk
Rerun ==
    /\ pc = "done"
    /\ run = 1
    /\ run' = 2
    /\ pc' = "start"
    /\ idx' = 1
    /\ log' = <<>>
    /\ UNCHANGED <<brandingExists, branding, files, iconsDir, blobs,
                   localesExists, locales>>

Next ==
    \/ Start
    \/ PackageStage
    \/ NlsStage
    \/ IconsStage
    \/ IconStep
    \/ LocalesStage
    \/ LocaleStep
    \/ Rerun

Spec == Init /\ [][Next]_vars

(***************************************************************************)
(* Conditions on a configuration under which a substitution cannot leave   *)
(* or create an occurrence of the token it removes.                        *)
(***************************************************************************)
\* inserting r between any two texts creates no occurrence of tok: r is not
\* empty, holds no tok, does not start with a character that tok has after
\* its first, and does not end with one that tok has before its last
NoOverlap(r, tok) ==
    /\ r # <<>>
    /\ ~Includes(r, tok)
    /\ \A i \in 2..Len(tok) : r[1] # tok[i]
    /\ \A i \in 1..(Len(tok) - 1) : r[Len(r)] # tok[i]

LegacyIds == {LegacyName, LegacyPublisher}

ManifestClean(b) ==
    /\ \A r \in {b.name, b.publisher} : \A tok \in LegacyIds : NoOverlap(r, tok)
    /\ \A f \in {b.description, b.repository, b.homepage} :
          \A tok \in LegacyIds : ~Includes(f, tok)

LocaleClean(b) == NoOverlap(ShortNameOf(b), Kilo)

\* no icon is copied from the directory the icons are copied to
IconsClean(b) ==
    \A i \in 1..Len(b.icons.entries) :
        LET src == b.icons.entries[i].src
        IN  src # <<>> =>
               ~OccursAt(IF isAbsolute(src) THEN src ELSE pathJoin(rootDir, src),
                         iconsDirPath \o <<"/">>, 1)

\* the manifest, the localization map, the icon destinations and the locale
\* files are distinct files in every scenario, and no icon source is one of
\* the first, the second or the last
Clean(b) == ManifestClean(b) /\ LocaleClean(b) /\ IconsClean(b)

\* number of occurrences of find in str, counted as split does
Count(str, find) == Len(Split(str, find)) - 1

Logged(m) == \E i \in 1..Len(log) : log[i] = m

(***************************************************************************)
(* C1. Locale-Directory Rewriter: every occurrence of "Kilocode" in a      *)
(* *.json locale file is replaced with config.displayName in the written   *)
(* text ("Kilocode settings" is written as "Jack Assistant settings").     *)
(***************************************************************************)
C1_KilocodeBecomesDisplayName ==
    [][ (pc = "localeLoop" /\ EndsWith(locales[idx].name, <<".","j","s","o","n">>))
        => Count(locales'[idx].text, branding.displayName)
              >= Count(locales[idx].text, Kilocode) ]_vars

\* the input read once from left to right: the two-word phrase, where it
\* occurs, gives shortName; otherwise the single word gives shortName
RECURSIVE PhraseThenWord(_, _)
PhraseThenWord(text, short) ==
    IF text = <<>> THEN <<>>
    ELSE IF OccursAt(text, KiloCode, 1)
         THEN short \o PhraseThenWord(SubSeq(text, Len(KiloCode) + 1, Len(text)), short)
    ELSE IF OccursAt(text, Kilo, 1)
         THEN short \o PhraseThenWord(SubSeq(text, Len(Kilo) + 1, Len(text)), short)
    ELSE <<text[1]>> \o PhraseThenWord(Tail(text), short)

PackageWritten == Logged(Updated(relativePackagePath))

NoLegacyId(text) == \A tok \in LegacyIds : ~Includes(text, tok)

(***************************************************************************)
(* C3, as stated. Manifest Rewriter: for all configurations, after the     *)
(* first application the written manifest text contains no occurrence of   *)
(* "kilo-code" or "kilocode".                                              *)
(***************************************************************************)
C3_NoLegacyIdRemains ==
    PackageWritten => NoLegacyId(files[relativePackagePath])

(***************************************************************************)
(* C3, amended. Manifest Rewriter: for the configurations of               *)
(* ManifestClean, after the first (and any later) application the written  *)
(* manifest text contains no occurrence of "kilo-code" or "kilocode".      *)
(***************************************************************************)
C3_NoLegacyIdIfClean ==
    (PackageWritten /\ ManifestClean(branding))
        => NoLegacyId(files[relativePackagePath])

\* "kilo-code.someView" and "onView:kilocode.Provider" were rewritten
C3_Witness ==
    /\ run = 1
    /\ PackageWritten
    /\ ManifestClean(branding)
    /\ Includes(files[relativePackagePath], <<"j","a","c","k","-","c","o","d","e",".","s","o","m","e","V","i","e","w">>)
    /\ Includes(files[relativePackagePath], <<"o","n","V","i","e","w",":","j","a","c","k","c","o","d","e",".","P","r","o","v","i","d","e","r">>)

(***************************************************************************)
(* C4, as stated. Round trip: for every configuration, the second          *)
(* invocation, with the same configuration, on what the first invocation   *)
(* wrote changes nothing on disk.                                          *)
(***************************************************************************)
C4_SecondRunChangesNothing ==
    [][ run = 2 => disk' = disk ]_vars

(***************************************************************************)
(* C4, amended. Round trip: for the configurations of Clean, the second    *)
(* invocation, with the same configuration, on what the first invocation   *)
(* wrote changes nothing on disk.                                          *)
(***************************************************************************)
C4_SecondRunChangesNothingIfClean ==
    [][ (run = 2 /\ Clean(branding)) => disk' = disk ]_vars

\* the second invocation has run every stage, each on its target
C4_Witness ==
    /\ run = 2
    /\ pc = "done"
    /\ Clean(branding)
    /\ Logged(Updated(relativePackagePath))
    /\ Logged(Updated(relativeNlsPath))
    /\ Logged(CopiedIcon(DestPool[1]))
    /\ Logged(UpdatedLocale(locales[1].name))

\* field k of the written object is what it was in the substituted input
Kept(before, after, k) ==
    /\ HasKey(after, k) = HasKey(before, k)
    /\ HasKey(before, k) => Get(after, k) = Get(before, k)

Is(o, k, v) == HasKey(o, k) /\ Get(o, k) = v

(***************************************************************************)
(* C5. Manifest Rewriter: whenever the stage writes the manifest, on the   *)
(* first and on every later application, the written name, publisher and   *)
(* description are the configured ones; repository is {type: "git", url:   *)
(* config.repository} when config.repository is non-empty and homepage is  *)
(* config.homepage when that is non-empty; otherwise each keeps the value  *)
(* the substituted input had, or stays absent.                             *)
(***************************************************************************)
C5_FieldsAsConfigured ==
    [][ (pc = "package" /\ log' = Append(log, Updated(relativePackagePath)))
        => LET rel == relativePackagePath
               before == JSONparse(substituteIds(files[rel], branding)).v.o
               after == JSONparse(files'[rel]).v.o
           IN  /\ JSONparse(files'[rel]).ok
               /\ Is(after, <<"n","a","m","e">>, Str(branding.name))
               /\ Is(after, <<"p","u","b","l","i","s","h","e","r">>, Str(branding.publisher))
               /\ Is(after, <<"d","e","s","c","r","i","p","t","i","o","n">>, Str(branding.description))
               /\ IF branding.repository # <<>>
                  THEN Is(after, <<"r","e","p","o","s","i","t","o","r","y">>,
                          Obj(<< [k |-> <<"t","y","p","e">>, v |-> Str(<<"g","i","t">>)],
                                 [k |-> <<"u","r","l">>, v |-> Str(branding.repository)] >>))
                  ELSE Kept(before, after, <<"r","e","p","o","s","i","t","o","r","y">>)
               /\ IF branding.homepage # <<>>
                  THEN Is(after, <<"h","o","m","e","p","a","g","e">>, Str(branding.homepage))
                  ELSE Kept(before, after, <<"h","o","m","e","p","a","g","e">>) ]_vars

\* the manifest without top-level fields was written, twice
C5_Witness ==
    /\ run = 2
    /\ PackageWritten
    /\ pc = "nls"
    /\ Includes(files[relativePackagePath], <<"\"","2","\"",":"," ","\"","t","w","o","\"">>)

\* where key k is written in a JSON text
KeyPos(text, k) == IndexOf(text, <<Quote>> \o k \o <<Quote, ":">>)

(***************************************************************************)
(* C6. Localization-Map Rewriter: after rewriting, the seven known keys    *)
(* hold their configured values, every other key of the input map is       *)
(* present with its value unchanged and in unchanged relative order, and   *)
(* no other key is added or removed.                                       *)
(***************************************************************************)
C6_UnknownKeysUntouched ==
    [][ (pc = "nls" /\ log' = Append(log, Updated(relativeNlsPath)))
        => LET rel == relativeNlsPath
               before == JSONparse(files[rel]).v.o
               after == JSONparse(files'[rel]).v.o
               others == {before[i].k : i \in 1..Len(before)} \ KnownKeys
           IN  /\ \A k \in KnownKeys \ {DescriptionKey} :
                     Is(after, k, Str(branding.displayName))
               /\ Is(after, DescriptionKey, Str(branding.description))
               /\ \A k \in others : Is(after, k, Get(before, k))
               /\ \A i \in 1..Len(after) : after[i].k \in KnownKeys \cup others
               /\ \A k1, k2 \in others :
                     KeyPos(files[rel], k1) < KeyPos(files[rel], k2)
                        => KeyPos(files'[rel], k1) < KeyPos(files'[rel], k2) ]_vars

Names(path) == \E i \in 1..Len(log) : log[i].arg = path

(***************************************************************************)
(* C8. Reporting: no skip is silent. When a run ends, each stage skipped   *)
(* because its target is absent (manifest, localization map, locale        *)
(* directory) and each icon whose source is missing has printed a message  *)
(* that names the target path.                                             *)
(***************************************************************************)
C8_NoSilentSkip ==
    pc = "done"
        => /\ files[relativePackagePath] = Missing => Names(<<relativePackagePath>>)
           /\ files[relativeNlsPath] = Missing => Names(<<relativeNlsPath>>)
           /\ ~localesExists => Names(<<LocalesPath>>)
           /\ branding.icons.present =>
                 \A i \in 1..Len(branding.icons.entries) :
                    LET src == branding.icons.entries[i].src
                    IN  (src # <<>> /\ ~existsSync(blobs, resolveSrc(src, blobs)))
                            => Names(resolveSrc(src, blobs))

\* the console output l reports a fatal condition
Failed(l) == \E i \in 1..Len(l) : l[i] \in {ConfigNotFound, Uncaught}

(***************************************************************************)
(* C9. Fatal propagation: when branding.json is absent or a targeted JSON  *)
(* file fails to parse, the run aborts at once: the failing stage writes   *)
(* nothing, no later stage runs, and what earlier stages wrote stays.      *)
(***************************************************************************)
C9_FatalAbortsRun ==
    [][ /\ ~Failed(log)
        /\ Failed(log') => disk' = disk ]_vars

\* the localization map failed to parse after the manifest was written
C9_Witness ==
    /\ pc = "aborted"
    /\ Failed(log)
    /\ PackageWritten
    /\ NoLegacyId(files[relativePackagePath])

(***************************************************************************)
(* C10. Icon Materializer: src/assets/icons is created only when           *)
(* config.icons is present and non-empty.                                  *)
(***************************************************************************)
C10_DirOnlyForNonEmptyIcons ==
    [][ (iconsDir' /\ ~iconsDir)
        => (branding.icons.present /\ branding.icons.entries # <<>>) ]_vars
====
